---- MODULE Spec2Model ----
(***************************************************************************)
(* audiorelay: the capture loop (AudioCapture.processAudio), the TCP       *)
(* broadcaster (TCPServer), the HTTP/WAV broadcaster (HTTPServer) and the  *)
(* service shutdown (AudioRelay.Stop), as one state machine.               *)
(*                                                                         *)
(* One session is modelled, as StartWithConfig runs it: AudioRelay.Start   *)
(* has returned (servers listening, capture loop spawned), and Stop is     *)
(* signalled at most once. The scenarios about the buffer size, silence    *)
(* detection and signal processing start earlier, at NewAudioCapture, and  *)
(* run AudioCapture.Initialize and AudioCapture.Start themselves; the      *)
(* start-up scenario runs AudioRelay.Start step by step, failures included,*)
(* and the restart scenario calls Start a second time after Stop.          *)
(***************************************************************************)
EXTENDS Integers, Sequences, FiniteSets, TLC

\* ------------------------------------------------------------------ bounds
NetFrames == 2        \* frames the device delivers in the network scenarios
IsoFrames == 1        \* frames the device delivers in the failure-isolation scenario
ThrottleFrames == 63  \* frames the device delivers in the throttling scenario
ThrottleLoud == 1     \* non-silent frames among them
ErrFrames == 3        \* frames the device delivers in the read-error scenario
RingFrames == 52      \* frames the device delivers in the backlog scenario
StopFrames == 2       \* frames the device delivers in the shutdown scenario
CbFrames == 32        \* frames the device delivers in the callback scenario
CbLoud == 1           \* non-silent frames among them
BufFrames == 1        \* frames the device delivers in the buffer-size scenario
MaxChannels == 2      \* channel counts tried there
MaxBufferSize == 3    \* configured buffer sizes tried there (0: automatic)
DetectFrames == 1     \* frames the device delivers in the silence-detection scenario
ClipFrames == 1       \* frames the device delivers in the soft-clip scenario
StatusFrames == 32    \* frames the device delivers in the status-line scenario
StatusLoud == 1       \* ... of which loud
MaxElapsed == 6       \* seconds the clock is followed past the last status line
MaxStatusLines == 1   \* status lines after which the clock is no longer followed
RestartFrames == 3    \* frames the device delivers in the restart scenario
StartFrames == 1      \* frames the device delivers in the start-up scenario
SilentFrames == 32    \* frames the device delivers in the all-silent scenario

\* ------------------------------------------------------- program constants
SilenceLimit == 30          \* if silenceFrames > 30
MaxConsecutiveErrors == 10  \* if consecutiveErrors > 10
bufferSize == 50            \* HTTPServer.bufferSize
SilenceThreshold == 1000    \* processing.silence_threshold (default)
ClipThreshold == 28000      \* processing.clip_threshold (default)
SampleRate == 48000         \* audio.sample_rate (default)
MinPowerOfTwo == 256        \* if powerOfTwo < 256
MaxPowerOfTwo == 2048       \* if powerOfTwo > 2048
StatsInterval == 5          \* time.Since(lastStats) > 5*time.Second

None == "none"
WavHeader == 0              \* the 44-byte header, as one item of a connection's stream

TcpConns == {"t1", "t2"}
HttpConns == {"h1", "h2"}
Conns == TcpConns \cup HttpConns

\* Input frames (two samples each): one within the threshold, one exceeding it.
QuietFrame == <<0, -SilenceThreshold>>
LoudFrame == <<0, SilenceThreshold + 1>>

VARIABLES
  cfg,                \* Config: silenceDetection, tcpEnabled, httpEnabled
  acfg,               \* Config.Audio and Config.Processing: the numeric settings
  actualBufferSize,   \* ac.actualBufferSize
  processed,          \* processedBuffer of the latest cycle that got that far
  encoded,            \* audioData of that cycle: the bytes made by int16ToBytes
  bytesTransferred,   \* local of processAudio: bytes since the last status line
  elapsed,            \* time.Since(lastStats), in seconds
  statusLines,        \* status lines logged so far
  okReads,            \* reads that returned without error
  cbBytes,            \* bytes handed to the data callback so far
  statsSeen,          \* the values GetStats could return during the latest cycle
  lpc2,               \* position of a processAudio goroutine spawned by a second Start
  scn,                \* the environment of the run: frames, peers, device faults
  \* AudioCapture
  lpc,                \* position of the processAudio goroutine
  isRunning,          \* ac.isRunning
  isCapturing,        \* ac.isCapturing
  stream,             \* ac.stream: "open" or "nil"
  buffer,             \* ac.buffer
  frameCount, bytesSent, silenceCount,
  silenceFrames, consecutiveErrors,   \* locals of processAudio
  audioData,          \* the encoded frame handed to the callback (its sequence number)
  loopSynced,         \* the loop has synchronised with Stop's writes (lock hand-over)
  \* observation of the capture loop
  run,                \* length of the current run of truly silent frames
  failRun,            \* length of the current run of failed reads
  cbCalls,            \* invocations of the data callback
  loud,               \* non-silent frames read
  replayN,            \* per HTTP connection, the Broadcast calls completed when
                      \* sendBufferedAudio took the backlog lock for it (-1: not yet)
  \* connections
  conn,               \* peer side: "none", "open", "stalled", "gone"
  srvClosed,          \* connections the server has closed
  recv,               \* per connection, the items whose Write returned nil
  \* TCPServer
  tcpRunning, listener, tcpClients, tacc, tb, tcpCleanups,
  \* HTTPServer
  httpRunning, httpListening, streamClients, audioBuffer, hb, httpCleanups,
  hpc, hidx,
  \* AudioRelay.Stop
  spc

capVars == <<lpc, isRunning, isCapturing, stream, buffer, frameCount, bytesSent,
             silenceCount, silenceFrames, consecutiveErrors, audioData, loopSynced>>
dspVars == <<acfg, actualBufferSize, processed>>
cycleVars == <<encoded, bytesTransferred, okReads, cbBytes, statsSeen>>
clockVars == <<elapsed, statusLines>>
obsVars == <<run, failRun, cbCalls, loud, replayN>>
connVars == <<conn, srvClosed, recv>>
tcpVars == <<tcpRunning, listener, tcpClients, tacc, tb, tcpCleanups>>
httpVars == <<httpRunning, httpListening, streamClients, audioBuffer, hb,
              httpCleanups, hpc, hidx>>
vars == <<cfg, scn, dspVars, cycleVars, clockVars, lpc2, capVars, obsVars, connVars, tcpVars, httpVars, spc>>

\* ----------------------------------------------------------------- helpers
Abs(x) == IF x < 0 THEN -x ELSE x
Last(s) == s[Len(s)]
ToInt16(x) == ((x + 32768) % 65536) - 32768

\* The process is gone once the capture goroutine has panicked.
Alive == lpc # "panic"

\* What the frame really is: every sample within the configured threshold.
TrulySilent(f) == \A i \in 1..Len(f) : Abs(f[i]) <= acfg.silenceThreshold

\* isSilence: threshold := int16(T); loud when a sample is > threshold or < -threshold.
isSilence_strict(f) ==
  LET threshold == ToInt16(acfg.silenceThreshold)
      neg == ToInt16(-threshold)
  IN  \A i \in 1..Len(f) : ~(f[i] >= threshold \/ f[i] <= neg)
isSilence(f) ==
  LET threshold == ToInt16(acfg.silenceThreshold)
      neg == ToInt16(-threshold)
  IN  \A i \in 1..Len(f) : ~(f[i] > threshold \/ f[i] < neg)

\* for powerOfTwo < targetSamples { powerOfTwo <<= 1 }
RECURSIVE NextPowerOfTwo(_, _)
NextPowerOfTwo(powerOfTwo, targetSamples) ==
  IF powerOfTwo < targetSamples
    THEN NextPowerOfTwo(2 * powerOfTwo, targetSamples)
    ELSE powerOfTwo

\* calculateOptimalBufferSize. The sample rate is a whole number of Hz here, for
\* which int(SampleRate * 0.02) is the integer part of SampleRate / 50.
calculateOptimalBufferSize_auto(a) ==
  LET p == NextPowerOfTwo(1, a.sampleRate \div 50)
  IN  (IF p < MinPowerOfTwo THEN MinPowerOfTwo
       ELSE IF p > MaxPowerOfTwo THEN MaxPowerOfTwo ELSE p) * a.channels
calculateOptimalBufferSize(a) ==
  IF a.bufferSize > 0
    THEN a.bufferSize * a.channels
    ELSE LET targetSamples == a.sampleRate \div 50
             p0 == NextPowerOfTwo(1, targetSamples)
             p1 == IF p0 < MinPowerOfTwo THEN MinPowerOfTwo ELSE p0
             p2 == IF p1 > MaxPowerOfTwo THEN MaxPowerOfTwo ELSE p1
         IN  p2 * a.channels

\* int16(x) for a float64 x given as the fraction n / d: the fraction is dropped
\* (towards zero); when the integer does not fit 16 bits the result depends on
\* the build: the low 16 bits on the usual targets, or the nearest bound.
Truncated(n, d) == IF n >= 0 THEN n \div d ELSE -((-n) \div d)
Int16Modes == {"wrap", "saturate"}
Int16Of(mode, n, d) ==
  LET t == Truncated(n, d)
  IN  IF t \in -32768..32767 THEN t
      ELSE IF mode = "wrap" THEN ToInt16(t)
      ELSE IF t > 0 THEN 32767 ELSE -32768

\* processAudioData, one sample, in hundredths: sample * VolumeMultiplier (the
\* multiplier in tenths), then the soft clip beyond +-ClipThreshold with
\* excess * 0.3. For these multipliers the float64 arithmetic is exact up to
\* the dropped fraction.
SoftClipped_hard(s) ==
  LET v == s * acfg.volumeTenths
      t == 10 * acfg.clipThreshold
  IN  IF v > t THEN 10 * t
      ELSE IF v < -t THEN -(10 * t)
      ELSE 10 * v
SoftClipped(s) ==
  LET v == s * acfg.volumeTenths
      t == 10 * acfg.clipThreshold
  IN  IF v > t THEN 10 * t + 3 * (v - t)
      ELSE IF v < -t THEN -(10 * t) + 3 * (v + t)
      ELSE 10 * v

\* processAudioData: the possible results for a frame.
processAudioData(f) ==
  {[i \in 1..Len(f) |-> Int16Of(mode, SoftClipped(f[i]), 100)] : mode \in Int16Modes}

\* int16ToBytes: two bytes per sample, the low byte first. byte() of a negative
\* sample keeps its two's-complement bits, which is what the floor-based
\* remainder and division compute.
int16ToBytes_bigendian(f) ==
  [k \in 1..(2 * Len(f)) |->
     IF k % 2 = 1 THEN (f[(k + 1) \div 2] \div 256) % 256
                  ELSE f[k \div 2] % 256]
int16ToBytes(f) ==
  [k \in 1..(2 * Len(f)) |->
     IF k % 2 = 1 THEN f[(k + 1) \div 2] % 256
                  ELSE (f[k \div 2] \div 256) % 256]

\* consecutiveErrors after a read that succeeded.
ErrorsAfterSuccess_keep(n) == n
ErrorsAfterSuccess(n) == 0

\* The counters as a GetStats call can find them while one successful cycle runs:
\* before it, after frameCount++, after silenceCount++ on a silent frame, and
\* after bytesSent += len on a frame that is sent. Each step holds statsMu.
StatsSteps_silenceFirst(fc, bs, sc, silent, skip, len) ==
  <<[frames |-> fc, bytes |-> bs, silence |-> sc]>>
  \o (IF silent THEN <<[frames |-> fc, bytes |-> bs, silence |-> sc + 1]>> ELSE <<>>)
  \o <<[frames |-> fc + 1, bytes |-> bs,
        silence |-> IF silent THEN sc + 1 ELSE sc]>>
  \o (IF skip THEN <<>>
              ELSE <<[frames |-> fc + 1, bytes |-> bs + len,
                      silence |-> IF silent THEN sc + 1 ELSE sc]>>)
StatsSteps(fc, bs, sc, silent, skip, len) ==
  <<[frames |-> fc, bytes |-> bs, silence |-> sc]>>
  \o <<[frames |-> fc + 1, bytes |-> bs, silence |-> sc]>>
  \o (IF silent THEN <<[frames |-> fc + 1, bytes |-> bs, silence |-> sc + 1]>>
                ELSE <<>>)
  \o (IF skip THEN <<>>
              ELSE <<[frames |-> fc + 1, bytes |-> bs + len,
                      silence |-> IF silent THEN sc + 1 ELSE sc]>>)

\* time.Since(lastStats) > 5*time.Second
StatsDue(e) == e > StatsInterval

\* len(int16ToBytes(buffer)): two bytes per sample.
EncodedLen_samples(f) == Len(f)
EncodedLen(f) == 2 * Len(f)

\* if silenceFrames > 30 { continue }
Throttled_ge(n) == n >= SilenceLimit
Throttled(n) == n > SilenceLimit

\* silenceFrames++ for a silent frame, silenceFrames = 0 otherwise.
NextSilenceFrames_noreset(silent, n) == IF silent THEN n + 1 ELSE n
NextSilenceFrames(silent, n) == IF silent THEN n + 1 ELSE 0

\* if consecutiveErrors > 10 { break }
TooManyErrors_ge(n) == n >= MaxConsecutiveErrors
TooManyErrors(n) == n > MaxConsecutiveErrors

\* for client := range clients: the loop ends when every client has been visited.
LoopDone_break(b) == b.todo = {} \/ b.failed # {}
LoopDone(b) == b.todo = {}

\* audioBuffer = append(audioBuffer, data), cut to the last bufferSize entries.
Appended_nocut(buf, d) == Append(buf, d)
Appended(buf, d) ==
  LET a == Append(buf, d)
  IN  IF Len(a) > bufferSize THEN SubSeq(a, Len(a) - bufferSize + 1, Len(a)) ELSE a

\* The result of a Write on connection c: an error once either side has closed,
\* success while the peer reads; while the peer is stalled the call stays blocked,
\* unless a write deadline is set, which then fails it.
WriteOutcomes(c, deadline) ==
  IF c \in srvClosed \/ conn[c] = "gone" THEN {"err"}
  ELSE IF conn[c] = "open" THEN {"ok"}
  ELSE IF deadline THEN {"err"}
  ELSE {}

Idle == [active |-> FALSE, todo |-> {}, failed |-> {}, cur |-> None]

\* ------------------------------------------------------------------- Init
\* The settings of the service scenarios: the defaults, with a configured
\* buffer of one sample per channel.
ServiceAudio ==
  [sampleRate |-> SampleRate, channels |-> 2, bufferSize |-> 1,
   silenceThreshold |-> SilenceThreshold, volumeTenths |-> 10,
   clipThreshold |-> ClipThreshold]

\* Everything but the capture device: statistics at zero, the servers started,
\* nobody connected.
InitService ==
  /\ encoded = <<>> /\ bytesTransferred = 0 /\ okReads = 0 /\ cbBytes = 0
  /\ statsSeen = <<[frames |-> 0, bytes |-> 0, silence |-> 0]>>
  /\ elapsed = 0 /\ statusLines = 0 /\ lpc2 = "none"
  /\ frameCount = 0 /\ bytesSent = 0 /\ silenceCount = 0
  /\ silenceFrames = 0 /\ consecutiveErrors = 0 /\ audioData = 0
  /\ loopSynced = FALSE
  /\ run = 0 /\ failRun = 0 /\ cbCalls = 0 /\ loud = 0
  /\ replayN = [c \in HttpConns |-> -1]
  /\ conn = [c \in Conns |-> "none"] /\ srvClosed = {}
  /\ recv = [c \in Conns |-> <<>>]
  /\ tcpRunning = cfg.tcpEnabled
  /\ listener = IF cfg.tcpEnabled THEN "open" ELSE "nil"
  /\ tcpClients = {} /\ tb = Idle /\ tcpCleanups = {}
  /\ tacc = [pc |-> IF cfg.tcpEnabled THEN "accept" ELSE "exit", c |-> None]
  /\ httpRunning = cfg.httpEnabled /\ httpListening = cfg.httpEnabled
  /\ streamClients = {} /\ audioBuffer = <<>> /\ hb = Idle /\ httpCleanups = {}
  /\ hpc = [c \in HttpConns |-> "none"] /\ hidx = [c \in HttpConns |-> 0]
  /\ spc = "run"

\* AudioRelay.Start has returned: capture initialised and started.
InitCommon ==
  /\ acfg = ServiceAudio
  /\ actualBufferSize = calculateOptimalBufferSize(acfg)
  /\ processed = <<>>
  /\ lpc = "check" /\ isRunning = TRUE /\ isCapturing = TRUE /\ stream = "open"
  /\ buffer = <<0, 0>>
  /\ InitService

\* NewAudioCapture: nothing initialised, no stream yet.
InitNew ==
  /\ actualBufferSize = 0 /\ processed = <<>> /\ buffer = <<>>
  /\ lpc = "new" /\ isRunning = FALSE /\ isCapturing = FALSE /\ stream = "nil"
  /\ InitService

\* --------------------------------------------------- AudioCapture.Initialize
\* The buffer size is computed, the buffer allocated and the stream opened on it.
Initialize ==
  /\ Alive /\ lpc = "new"
  /\ actualBufferSize' = calculateOptimalBufferSize(acfg)
  /\ buffer' = [i \in 1..calculateOptimalBufferSize(acfg) |-> 0]
  /\ stream' = "open"
  /\ lpc' = "init"
  /\ UNCHANGED <<cfg, scn, acfg, processed, cycleVars, clockVars, lpc2, isRunning, isCapturing, frameCount,
                 bytesSent, silenceCount, silenceFrames, consecutiveErrors,
                 audioData, loopSynced, obsVars, connVars, tcpVars, httpVars, spc>>

\* AudioCapture.Start: the stream started, the flags set, processAudio spawned.
StartCapture ==
  /\ Alive /\ lpc = "init" /\ ~isCapturing
  /\ isCapturing' = TRUE /\ isRunning' = TRUE
  /\ lpc' = "check"
  /\ UNCHANGED <<cfg, scn, dspVars, cycleVars, clockVars, lpc2, stream, buffer, frameCount,
                 bytesSent, silenceCount, silenceFrames, consecutiveErrors,
                 audioData, loopSynced, obsVars, connVars, tcpVars, httpVars, spc>>

\* ---------------------------------------------------- AudioCapture.processAudio
\* for ac.isRunning: an unsynchronised read, which may still see the value from
\* before Stop until the loop has synchronised with the stopping goroutine.
RunningSeen ==
  {isRunning} \cup (IF spc # "run" /\ ~loopSynced THEN {TRUE} ELSE {})

LoopCheck ==
  /\ Alive /\ lpc = "check"
  /\ \E v \in RunningSeen : lpc' = IF v THEN "read" ELSE "exit"
  /\ UNCHANGED <<cfg, scn, dspVars, cycleVars, clockVars, lpc2, isRunning, isCapturing, stream, buffer, frameCount,
                 bytesSent, silenceCount, silenceFrames, consecutiveErrors,
                 audioData, loopSynced, obsVars, connVars, tcpVars, httpVars, spc>>

\* stream.Read() returns nil: one whole cycle up to the callback invocation.
ReadOk(f) ==
  /\ Alive /\ lpc = "read"
  /\ f \in scn.frames /\ Len(f) = actualBufferSize
  /\ frameCount < scn.maxFrames
  /\ IF TrulySilent(f) THEN TRUE ELSE loud < scn.maxLoud
  /\ LET silent == cfg.silenceDetection /\ isSilence(f)
         sf == IF cfg.silenceDetection
                 THEN NextSilenceFrames(silent, silenceFrames)
                 ELSE silenceFrames
         skip == silent /\ Throttled(sf)
     IN  /\ consecutiveErrors' = ErrorsAfterSuccess(consecutiveErrors)
         /\ frameCount' = frameCount + 1
         /\ okReads' = okReads + 1
         /\ statsSeen' = StatsSteps(frameCount, bytesSent, silenceCount, silent,
                                    skip, EncodedLen(f))
         /\ bytesTransferred' = IF skip THEN bytesTransferred
                                        ELSE bytesTransferred + EncodedLen(f)
         /\ buffer' = f
         /\ silenceFrames' = sf
         /\ silenceCount' = IF silent THEN silenceCount + 1 ELSE silenceCount
         /\ bytesSent' = IF skip THEN bytesSent ELSE bytesSent + EncodedLen(f)
         /\ audioData' = IF skip THEN audioData ELSE frameCount + 1
         /\ cbCalls' = IF skip THEN cbCalls ELSE cbCalls + 1
         /\ lpc' = IF skip THEN "check" ELSE "cb_tcp"
         /\ IF skip THEN UNCHANGED <<processed, encoded, cbBytes>>
                    ELSE \E q \in processAudioData(f) :
                           /\ processed' = q
                           /\ encoded' = int16ToBytes(q)
                           /\ cbBytes' = cbBytes + Len(int16ToBytes(q))
  /\ run' = IF TrulySilent(f) THEN run + 1 ELSE 0
  /\ loud' = IF TrulySilent(f) THEN loud ELSE loud + 1
  /\ failRun' = 0
  /\ UNCHANGED <<cfg, scn, acfg, actualBufferSize, clockVars, lpc2, isRunning, isCapturing, stream,
                 loopSynced, replayN, connVars, tcpVars, httpVars, spc>>

\* stream.Read() returns an error: count it, give up after too many in a row,
\* otherwise sleep 10 ms and go round the loop again.
ReadFail ==
  /\ Alive /\ lpc = "read"
  /\ scn.faulty \/ stream = "nil"
  /\ consecutiveErrors' = consecutiveErrors + 1
  /\ failRun' = failRun + 1
  /\ lpc' = IF TooManyErrors(consecutiveErrors + 1) THEN "exit" ELSE "check"
  /\ UNCHANGED <<cfg, scn, dspVars, cycleVars, clockVars, lpc2, isRunning, isCapturing, stream, buffer, frameCount,
                 bytesSent, silenceCount, silenceFrames, audioData, loopSynced,
                 run, cbCalls, loud, replayN, connVars, tcpVars, httpVars, spc>>

\* ac.stream.Read() once Stop has set ac.stream to nil: a nil dereference,
\* which ends the process.
ReadPanic ==
  /\ Alive /\ lpc = "read" /\ stream = "nil"
  /\ lpc' = "panic"
  /\ UNCHANGED <<cfg, scn, dspVars, cycleVars, clockVars, lpc2, isRunning, isCapturing, stream, buffer, frameCount,
                 bytesSent, silenceCount, silenceFrames, consecutiveErrors,
                 audioData, loopSynced, obsVars, connVars, tcpVars, httpVars, spc>>

\* ------------------------------------------------------------------ TCPServer
\* acceptClients: listener.Accept() returns a connection.
TcpAccept(c) ==
  /\ Alive /\ tacc.pc = "accept" /\ listener = "open"
  /\ c \in TcpConns \cap scn.peers /\ conn[c] = "none"
  /\ conn' = [conn EXCEPT ![c] = "open"]
  /\ tacc' = [pc |-> "add", c |-> c]
  /\ UNCHANGED <<cfg, scn, dspVars, cycleVars, clockVars, lpc2, capVars, obsVars, srvClosed, recv, tcpRunning, listener,
                 tcpClients, tb, tcpCleanups, httpVars, spc>>

\* addClient: clientsMu.Lock(), which waits for a Broadcast holding the read lock.
TcpAddClient ==
  /\ Alive /\ tacc.pc = "add" /\ ~tb.active
  /\ tcpClients' = tcpClients \cup {tacc.c}
  /\ tacc' = [pc |-> "accept", c |-> None]
  /\ UNCHANGED <<cfg, scn, dspVars, cycleVars, clockVars, lpc2, capVars, obsVars, connVars, tcpRunning, listener, tb,
                 tcpCleanups, httpVars, spc>>

\* acceptClients returns: Accept fails on the closed listener, or the loop
\* condition ts.isRunning is false.
TcpAcceptExit ==
  /\ Alive /\ tacc.pc = "accept"
  /\ listener = "closed" \/ ~tcpRunning
  /\ tacc' = [pc |-> "exit", c |-> None]
  /\ UNCHANGED <<cfg, scn, dspVars, cycleVars, clockVars, lpc2, capVars, obsVars, connVars, tcpRunning, listener,
                 tcpClients, tb, tcpCleanups, httpVars, spc>>

\* broadcastAudioData, TCP part: skipped when the TCP server is disabled;
\* Broadcast takes the read lock and returns at once on an empty client set.
TcpBroadcastBegin ==
  /\ Alive /\ lpc = "cb_tcp"
  /\ IF cfg.tcpEnabled /\ tcpClients # {}
       THEN /\ tb' = [active |-> TRUE, todo |-> tcpClients, failed |-> {}, cur |-> None]
            /\ lpc' = "tcp_loop"
       ELSE /\ tb' = Idle
            /\ lpc' = "cb_http"
  /\ loopSynced' = (loopSynced \/ (cfg.tcpEnabled /\ spc \in {"tcp", "http_lock", "done"}))
  /\ UNCHANGED <<cfg, scn, dspVars, cycleVars, clockVars, lpc2, isRunning, isCapturing, stream, buffer, frameCount,
                 bytesSent, silenceCount, silenceFrames, consecutiveErrors,
                 audioData, obsVars, connVars, tcpRunning, listener, tcpClients,
                 tacc, tcpCleanups, httpVars, spc>>

\* The next iteration of the range loop: SetWriteDeadline and the call of Write.
TcpWriteBegin(c) ==
  /\ Alive /\ lpc = "tcp_loop" /\ tb.cur = None /\ ~LoopDone(tb)
  /\ c \in tb.todo
  /\ tb' = [tb EXCEPT !.cur = c, !.todo = @ \ {c}]
  /\ UNCHANGED <<cfg, scn, dspVars, cycleVars, clockVars, lpc2, capVars, obsVars, connVars, tcpRunning, listener,
                 tcpClients, tacc, tcpCleanups, httpVars, spc>>

\* Write returns (at the latest when its 2 s deadline expires).
TcpWriteReturn ==
  /\ Alive /\ lpc = "tcp_loop" /\ tb.cur # None
  /\ \E r \in WriteOutcomes(tb.cur, TRUE) :
       IF r = "ok"
         THEN /\ recv' = [recv EXCEPT ![tb.cur] = Append(@, audioData)]
              /\ tb' = [tb EXCEPT !.cur = None]
         ELSE /\ recv' = recv
              /\ tb' = [tb EXCEPT !.cur = None, !.failed = @ \cup {tb.cur}]
  /\ UNCHANGED <<cfg, scn, dspVars, cycleVars, clockVars, lpc2, capVars, obsVars, conn, srvClosed, tcpRunning, listener,
                 tcpClients, tacc, tcpCleanups, httpVars, spc>>

\* The loop is over: go cleanupClients(failedClients) if any, release the lock.
TcpBroadcastEnd ==
  /\ Alive /\ lpc = "tcp_loop" /\ tb.cur = None /\ LoopDone(tb)
  /\ tcpCleanups' = IF tb.failed # {} THEN tcpCleanups \cup {tb.failed} ELSE tcpCleanups
  /\ tb' = [tb EXCEPT !.active = FALSE, !.todo = {}]
  /\ lpc' = "cb_http"
  /\ UNCHANGED <<cfg, scn, dspVars, cycleVars, clockVars, lpc2, isRunning, isCapturing, stream, buffer, frameCount,
                 bytesSent, silenceCount, silenceFrames, consecutiveErrors,
                 audioData, loopSynced, obsVars, connVars, tcpRunning, listener,
                 tcpClients, tacc, httpVars, spc>>

\* cleanupClients: under the write lock, delete and Close every failed client.
TcpCleanup(F) ==
  /\ Alive /\ F \in tcpCleanups /\ ~tb.active
  /\ tcpClients' = tcpClients \ F
  /\ srvClosed' = srvClosed \cup F
  /\ tcpCleanups' = tcpCleanups \ {F}
  /\ UNCHANGED <<cfg, scn, dspVars, cycleVars, clockVars, lpc2, capVars, obsVars, conn, recv, tcpRunning, listener, tacc,
                 tb, httpVars, spc>>

\* ----------------------------------------------------------------- HTTPServer
\* Holders of audioBufferMu's read lock: the handlers inside sendBufferedAudio.
BufReaders == {c \in HttpConns : hpc[c] = "replay"}

\* bufferAudioData is waiting for the write lock (new readers queue behind it).
BufWriterWaiting == lpc = "cb_buf" /\ BufReaders # {}

\* HTTPServer.Broadcast calls that have completed: every callback invocation made
\* so far, less the one still in progress.
BroadcastsDone ==
  cbCalls - (IF lpc \in {"cb_tcp", "tcp_loop", "cb_http", "http_loop", "cb_buf"}
               THEN 1 ELSE 0)

\* handleWavStream: after the header comes sendBufferedAudio, then addStreamClient.
AfterHeader_noreplay == "add"
AfterHeader == "replay_lock"

\* for _, data := range hs.audioBuffer: the i-th entry written.
ReplayItem_first(buf, i) == buf[1]
ReplayItem(buf, i) == buf[i]

\* writeWAVHeader: the sizes of its successive w.Write calls, and their total.
WavHeaderWrites == <<4, 4, 4, 4, 4, 2, 2, 4, 4, 2, 2, 4, 4>>
WavHeaderLen ==
  LET Sum[i \in 0..Len(WavHeaderWrites)] ==
        IF i = 0 THEN 0 ELSE Sum[i - 1] + WavHeaderWrites[i]
  IN  Sum[Len(WavHeaderWrites)]

\* handleWavStream: the first thing written to the response is the WAV header.
OnConnect_noheader == "replay_lock"
OnConnect == "header"

\* A GET /stream.wav arrives and the server runs handleWavStream for it.
HttpConnect(c) ==
  /\ Alive /\ httpListening
  /\ c \in HttpConns \cap scn.peers /\ conn[c] = "none"
  /\ conn' = [conn EXCEPT ![c] = "open"]
  /\ hpc' = [hpc EXCEPT ![c] = OnConnect]
  /\ UNCHANGED <<cfg, scn, dspVars, cycleVars, clockVars, lpc2, capVars, obsVars, srvClosed, recv, tcpVars, httpRunning,
                 httpListening, streamClients, audioBuffer, hb, httpCleanups, hidx,
                 spc>>

\* handleWavStream: writeWAVHeader and Flush; write errors are not looked at.
HandlerHeader(c) ==
  /\ Alive /\ hpc[c] = "header"
  /\ \E r \in WriteOutcomes(c, FALSE) :
       recv' = IF r = "ok" THEN [recv EXCEPT ![c] = Append(@, WavHeader)] ELSE recv
  /\ hpc' = [hpc EXCEPT ![c] = AfterHeader]
  /\ UNCHANGED <<cfg, scn, dspVars, cycleVars, clockVars, lpc2, capVars, obsVars, conn, srvClosed, tcpVars, httpRunning,
                 httpListening, streamClients, audioBuffer, hb, httpCleanups, hidx,
                 spc>>

\* sendBufferedAudio: audioBufferMu.RLock().
ReplayBegin(c) ==
  /\ Alive /\ hpc[c] = "replay_lock" /\ ~BufWriterWaiting
  /\ hpc' = [hpc EXCEPT ![c] = "replay"]
  /\ hidx' = [hidx EXCEPT ![c] = 1]
  /\ replayN' = [replayN EXCEPT ![c] = BroadcastsDone]
  /\ UNCHANGED <<cfg, scn, dspVars, cycleVars, clockVars, lpc2, capVars, run, failRun, cbCalls, loud, connVars, tcpVars,
                 httpRunning,
                 httpListening, streamClients, audioBuffer, hb, httpCleanups, spc>>

\* sendBufferedAudio: w.Write(data) for the next backlog entry, error ignored.
ReplayWrite(c) ==
  /\ Alive /\ hpc[c] = "replay" /\ hidx[c] <= Len(audioBuffer)
  /\ \E r \in WriteOutcomes(c, FALSE) :
       recv' = IF r = "ok" THEN [recv EXCEPT ![c] = Append(@, ReplayItem(audioBuffer, hidx[c]))]
               ELSE recv
  /\ hidx' = [hidx EXCEPT ![c] = @ + 1]
  /\ UNCHANGED <<cfg, scn, dspVars, cycleVars, clockVars, lpc2, capVars, obsVars, conn, srvClosed, tcpVars, httpRunning,
                 httpListening, streamClients, audioBuffer, hb, httpCleanups, hpc, spc>>

\* sendBufferedAudio returns: Flush, audioBufferMu.RUnlock().
ReplayEnd(c) ==
  /\ Alive /\ hpc[c] = "replay" /\ hidx[c] > Len(audioBuffer)
  /\ hpc' = [hpc EXCEPT ![c] = "add"]
  /\ hidx' = [hidx EXCEPT ![c] = 0]
  /\ UNCHANGED <<cfg, scn, dspVars, cycleVars, clockVars, lpc2, capVars, obsVars, connVars, tcpVars, httpRunning,
                 httpListening, streamClients, audioBuffer, hb, httpCleanups, spc>>

\* addStreamClient: streamClientsMu.Lock(), which waits for a fan-out in progress.
AddStreamClient(c) ==
  /\ Alive /\ hpc[c] = "add" /\ ~hb.active
  /\ streamClients' = streamClients \cup {c}
  /\ hpc' = [hpc EXCEPT ![c] = "wait"]
  /\ UNCHANGED <<cfg, scn, dspVars, cycleVars, clockVars, lpc2, capVars, obsVars, connVars, tcpVars, httpRunning,
                 httpListening, audioBuffer, hb, httpCleanups, hidx, spc>>

\* <-r.Context().Done() once the connection is closed, then removeStreamClient;
\* the handler returns, upon which net/http closes the broken connection.
RemoveStreamClient(c) ==
  /\ Alive /\ hpc[c] = "wait" /\ ~hb.active
  /\ conn[c] = "gone" \/ c \in srvClosed
  /\ streamClients' = streamClients \ {c}
  /\ srvClosed' = srvClosed \cup {c}
  /\ hpc' = [hpc EXCEPT ![c] = "done"]
  /\ UNCHANGED <<cfg, scn, dspVars, cycleVars, clockVars, lpc2, capVars, obsVars, conn, recv, tcpVars, httpRunning,
                 httpListening, audioBuffer, hb, httpCleanups, hidx, spc>>

\* broadcastAudioData, HTTP part: skipped when the HTTP server is disabled;
\* broadcastHTTPStream takes the read lock and returns at once on an empty set.
HttpBroadcastBegin ==
  /\ Alive /\ lpc = "cb_http"
  /\ IF ~cfg.httpEnabled
       THEN hb' = Idle /\ lpc' = "cb_end"
       ELSE IF streamClients = {}
         THEN hb' = Idle /\ lpc' = "cb_buf"
         ELSE /\ hb' = [active |-> TRUE, todo |-> streamClients, failed |-> {},
                        cur |-> None]
              /\ lpc' = "http_loop"
  /\ loopSynced' = (loopSynced \/ (cfg.httpEnabled /\ spc = "done"))
  /\ UNCHANGED <<cfg, scn, dspVars, cycleVars, clockVars, lpc2, isRunning, isCapturing, stream, buffer, frameCount,
                 bytesSent, silenceCount, silenceFrames, consecutiveErrors,
                 audioData, obsVars, connVars, tcpVars, httpRunning, httpListening,
                 streamClients, audioBuffer, httpCleanups, hpc, hidx, spc>>

\* The next iteration of the range loop: the call of client.Write(data).
HttpWriteBegin(c) ==
  /\ Alive /\ lpc = "http_loop" /\ hb.cur = None /\ ~LoopDone(hb)
  /\ c \in hb.todo
  /\ hb' = [hb EXCEPT !.cur = c, !.todo = @ \ {c}]
  /\ UNCHANGED <<cfg, scn, dspVars, cycleVars, clockVars, lpc2, capVars, obsVars, connVars, tcpVars, httpRunning,
                 httpListening, streamClients, audioBuffer, httpCleanups, hpc, hidx,
                 spc>>

\* Write (and Flush) returns; no deadline is set (WriteTimeout: 0).
HttpWriteReturn ==
  /\ Alive /\ lpc = "http_loop" /\ hb.cur # None
  /\ \E r \in WriteOutcomes(hb.cur, FALSE) :
       IF r = "ok"
         THEN /\ recv' = [recv EXCEPT ![hb.cur] = Append(@, audioData)]
              /\ hb' = [hb EXCEPT !.cur = None]
         ELSE /\ recv' = recv
              /\ hb' = [hb EXCEPT !.cur = None, !.failed = @ \cup {hb.cur}]
  /\ UNCHANGED <<cfg, scn, dspVars, cycleVars, clockVars, lpc2, capVars, obsVars, conn, srvClosed, tcpVars, httpRunning,
                 httpListening, streamClients, audioBuffer, httpCleanups, hpc, hidx,
                 spc>>

\* The loop is over: go cleanupStreamClients(failedClients) if any, release the lock.
HttpBroadcastEnd ==
  /\ Alive /\ lpc = "http_loop" /\ hb.cur = None /\ LoopDone(hb)
  /\ httpCleanups' = IF hb.failed # {} THEN httpCleanups \cup {hb.failed}
                     ELSE httpCleanups
  /\ hb' = [hb EXCEPT !.active = FALSE, !.todo = {}]
  /\ lpc' = "cb_buf"
  /\ UNCHANGED <<cfg, scn, dspVars, cycleVars, clockVars, lpc2, isRunning, isCapturing, stream, buffer, frameCount,
                 bytesSent, silenceCount, silenceFrames, consecutiveErrors,
                 audioData, loopSynced, obsVars, connVars, tcpVars, httpRunning,
                 httpListening, streamClients, audioBuffer, hpc, hidx, spc>>

\* bufferAudioData: under audioBufferMu's write lock, append and cut.
BufferAudioData ==
  /\ Alive /\ lpc = "cb_buf" /\ BufReaders = {}
  /\ audioBuffer' = Appended(audioBuffer, audioData)
  /\ lpc' = "cb_end"
  /\ UNCHANGED <<cfg, scn, dspVars, cycleVars, clockVars, lpc2, isRunning, isCapturing, stream, buffer, frameCount,
                 bytesSent, silenceCount, silenceFrames, consecutiveErrors,
                 audioData, loopSynced, obsVars, connVars, tcpVars, httpRunning,
                 httpListening, streamClients, hb, httpCleanups, hpc, hidx, spc>>

\* The callback has returned. The statistics block closes the cycle: when more
\* than five seconds have passed since lastStats a status line is logged and
\* bytesTransferred and lastStats are reset. Then the loop tests ac.isRunning.
CallbackReturn ==
  /\ Alive /\ lpc = "cb_end"
  /\ lpc' = "check"
  /\ IF StatsDue(elapsed)
       THEN /\ statusLines' = statusLines + 1
            /\ elapsed' = 0
            /\ bytesTransferred' = 0
       ELSE UNCHANGED <<statusLines, elapsed, bytesTransferred>>
  /\ UNCHANGED <<encoded, okReads, cbBytes, statsSeen>>
  /\ UNCHANGED <<cfg, scn, dspVars, lpc2, isRunning, isCapturing, stream, buffer, frameCount,
                 bytesSent, silenceCount, silenceFrames, consecutiveErrors,
                 audioData, loopSynced, obsVars, connVars, tcpVars, httpVars, spc>>

\* cleanupStreamClients: under the write lock, delete every failed client.
HttpCleanup(F) ==
  /\ Alive /\ F \in httpCleanups /\ ~hb.active
  /\ streamClients' = streamClients \ F
  /\ httpCleanups' = httpCleanups \ {F}
  /\ UNCHANGED <<cfg, scn, dspVars, cycleVars, clockVars, lpc2, capVars, obsVars, connVars, tcpVars, httpRunning,
                 httpListening, audioBuffer, hb, hpc, hidx, spc>>

\* ------------------------------------------------------------ AudioRelay.Stop
\* audioCapture.Stop(): flags cleared, stream stopped, closed and set to nil.
\* It returns without waiting for the processAudio goroutine.
StopCapture ==
  /\ Alive /\ spc = "run"
  /\ isRunning' = FALSE /\ isCapturing' = FALSE /\ stream' = "nil"
  /\ spc' = "cap"
  /\ UNCHANGED <<cfg, scn, dspVars, cycleVars, clockVars, lpc2, lpc, buffer, frameCount, bytesSent, silenceCount,
                 silenceFrames, consecutiveErrors, audioData, loopSynced, obsVars,
                 connVars, tcpVars, httpVars>>

\* tcpServer.Stop(), first half: isRunning = false, listener.Close().
TcpStopListener ==
  /\ Alive /\ spc = "cap"
  /\ IF cfg.tcpEnabled
       THEN tcpRunning' = FALSE /\ listener' = "closed" /\ spc' = "tcp_lock"
       ELSE UNCHANGED <<tcpRunning, listener>> /\ spc' = "tcp"
  /\ UNCHANGED <<cfg, scn, dspVars, cycleVars, clockVars, lpc2, capVars, obsVars, connVars, tcpClients, tacc, tb,
                 tcpCleanups, httpVars>>

\* tcpServer.Stop(), second half: under the write lock close every client and
\* replace the map.
TcpStopClients ==
  /\ Alive /\ spc = "tcp_lock" /\ ~tb.active
  /\ srvClosed' = srvClosed \cup tcpClients
  /\ tcpClients' = {}
  /\ spc' = "tcp"
  /\ UNCHANGED <<cfg, scn, dspVars, cycleVars, clockVars, lpc2, capVars, obsVars, conn, recv, tcpRunning, listener, tacc,
                 tb, tcpCleanups, httpVars>>

\* httpServer.Stop(), first half: isRunning = false, server.Close(), which closes
\* the listener and every connection.
HttpStopServer ==
  /\ Alive /\ spc = "tcp"
  /\ IF cfg.httpEnabled
       THEN /\ httpRunning' = FALSE /\ httpListening' = FALSE
            /\ srvClosed' = srvClosed \cup {c \in HttpConns : conn[c] # "none"}
            /\ spc' = "http_lock"
       ELSE UNCHANGED <<httpRunning, httpListening, srvClosed>> /\ spc' = "done"
  /\ UNCHANGED <<cfg, scn, dspVars, cycleVars, clockVars, lpc2, capVars, obsVars, conn, recv, tcpVars, streamClients,
                 audioBuffer, hb, httpCleanups, hpc, hidx>>

\* httpServer.Stop(), second half: under the write lock flush every client and
\* replace the map; then ar.isRunning = false.
HttpStopClients ==
  /\ Alive /\ spc = "http_lock" /\ ~hb.active
  /\ streamClients' = {}
  /\ spc' = "done"
  /\ UNCHANGED <<cfg, scn, dspVars, cycleVars, clockVars, lpc2, capVars, obsVars, connVars, tcpVars, httpRunning,
                 httpListening, audioBuffer, hb, httpCleanups, hpc, hidx>>

\* ---------------------------------------------------------------- the peers
\* A peer stops reading (its receive window fills), reads again, or goes away.
PeerStall(c) ==
  /\ Alive /\ conn[c] = "open" /\ c \notin srvClosed /\ c \in scn.moody
  /\ conn' = [conn EXCEPT ![c] = "stalled"]
  /\ UNCHANGED <<cfg, scn, dspVars, cycleVars, clockVars, lpc2, capVars, obsVars, srvClosed, recv, tcpVars, httpVars, spc>>

PeerResume(c) ==
  /\ Alive /\ conn[c] = "stalled" /\ c \notin srvClosed
  /\ conn' = [conn EXCEPT ![c] = "open"]
  /\ UNCHANGED <<cfg, scn, dspVars, cycleVars, clockVars, lpc2, capVars, obsVars, srvClosed, recv, tcpVars, httpVars, spc>>

PeerClose(c) ==
  /\ Alive /\ conn[c] \in {"open", "stalled"} /\ c \notin srvClosed
  /\ c \in scn.mortal
  /\ conn' = [conn EXCEPT ![c] = "gone"]
  /\ UNCHANGED <<cfg, scn, dspVars, cycleVars, clockVars, lpc2, capVars, obsVars, srvClosed, recv, tcpVars, httpVars, spc>>

\* --------------------------------------------------- AudioRelay.Start, again
\* A second AudioRelay.Start after Stop has returned, with both protocols
\* disabled: audioCapture.Initialize computes the size, allocates a new buffer
\* and opens a new stream on the same AudioCapture.
Reinitialize ==
  /\ Alive /\ spc = "done"
  /\ ~cfg.tcpEnabled /\ ~cfg.httpEnabled
  /\ actualBufferSize' = calculateOptimalBufferSize(acfg)
  /\ buffer' = [i \in 1..calculateOptimalBufferSize(acfg) |-> 0]
  /\ stream' = "open"
  /\ spc' = "reinit"
  /\ UNCHANGED <<cfg, scn, acfg, processed, cycleVars, clockVars, lpc2, lpc, isRunning,
                 isCapturing, frameCount, bytesSent, silenceCount, silenceFrames,
                 consecutiveErrors, audioData, loopSynced, obsVars, connVars,
                 tcpVars, httpVars>>

\* audioCapture.Start of the second AudioRelay.Start: refused while
\* isCapturing, otherwise both flags are set and a new processAudio goroutine
\* is spawned. Nothing looks at the goroutine spawned by the first Start.
StartAgain ==
  /\ Alive /\ spc = "reinit"
  /\ IF isCapturing
       THEN spc' = "refused" /\ UNCHANGED <<isRunning, isCapturing, lpc2>>
       ELSE /\ isCapturing' = TRUE /\ isRunning' = TRUE
            /\ lpc2' = "check"
            /\ spc' = "rerun"
  /\ UNCHANGED <<cfg, scn, dspVars, cycleVars, clockVars, lpc, stream, buffer,
                 frameCount, bytesSent, silenceCount, silenceFrames,
                 consecutiveErrors, audioData, loopSynced, obsVars, connVars,
                 tcpVars, httpVars>>

\* The second goroutine's loop test. The go statement orders it after Start's
\* writes, and nothing clears the flag afterwards.
LoopCheck2 ==
  /\ Alive /\ lpc2 = "check"
  /\ lpc2' = IF isRunning THEN "read" ELSE "exit"
  /\ UNCHANGED <<cfg, scn, dspVars, cycleVars, clockVars, capVars, obsVars, connVars,
                 tcpVars, httpVars, spc>>

\* One whole cycle of the second goroutine on a successful read, with silence
\* detection off and both protocols disabled: the shared counters and buffers
\* are updated as in the first goroutine, the callback finds no server and
\* returns, and no status line is due. The goroutine's own locals stay at their
\* initial values throughout.
ReadOk2(f) ==
  /\ Alive /\ lpc2 = "read"
  /\ ~cfg.silenceDetection /\ ~cfg.tcpEnabled /\ ~cfg.httpEnabled
  /\ ~StatsDue(elapsed)
  /\ f \in scn.frames /\ Len(f) = actualBufferSize
  /\ frameCount < scn.maxFrames
  /\ IF TrulySilent(f) THEN TRUE ELSE loud < scn.maxLoud
  /\ frameCount' = frameCount + 1
  /\ okReads' = okReads + 1
  /\ statsSeen' = StatsSteps(frameCount, bytesSent, silenceCount, FALSE, FALSE,
                             EncodedLen(f))
  /\ buffer' = f
  /\ bytesSent' = bytesSent + EncodedLen(f)
  /\ audioData' = frameCount + 1
  /\ cbCalls' = cbCalls + 1
  /\ \E q \in processAudioData(f) :
       /\ processed' = q
       /\ encoded' = int16ToBytes(q)
       /\ cbBytes' = cbBytes + Len(int16ToBytes(q))
  /\ run' = IF TrulySilent(f) THEN run + 1 ELSE 0
  /\ loud' = IF TrulySilent(f) THEN loud ELSE loud + 1
  /\ lpc2' = "check"
  /\ UNCHANGED <<cfg, scn, acfg, actualBufferSize, bytesTransferred, clockVars, lpc,
                 isRunning, isCapturing, stream, silenceCount, silenceFrames,
                 consecutiveErrors, loopSynced, failRun, replayN, connVars,
                 tcpVars, httpVars, spc>>

\* ----------------------------------------------------------- AudioRelay.Start
\* Start up to audioCapture.Initialize: the device manager, the device
\* selection or the opening of the stream may fail, and Start then returns the
\* error with nothing started.
RelayInitialize ==
  /\ Alive /\ spc = "idle"
  /\ \E ok \in BOOLEAN :
       IF ok
         THEN /\ actualBufferSize' = calculateOptimalBufferSize(acfg)
              /\ buffer' = [i \in 1..calculateOptimalBufferSize(acfg) |-> 0]
              /\ stream' = "open"
              /\ spc' = "start_tcp"
         ELSE /\ UNCHANGED <<actualBufferSize, buffer, stream>>
              /\ spc' = "failed"
  /\ UNCHANGED <<cfg, scn, acfg, processed, cycleVars, clockVars, lpc2, lpc, isRunning,
                 isCapturing, frameCount, bytesSent, silenceCount, silenceFrames,
                 consecutiveErrors, audioData, loopSynced, obsVars, connVars,
                 tcpVars, httpVars>>

\* startProtocolServers, TCP part: skipped when disabled; TCPServer.Start
\* listens, sets isRunning and spawns acceptClients, or returns the error of
\* net.Listen, which Start hands on.
RelayStartTcp ==
  /\ Alive /\ spc = "start_tcp"
  /\ IF ~cfg.tcpEnabled
       THEN UNCHANGED <<tcpRunning, listener, tacc>> /\ spc' = "start_http"
       ELSE \E ok \in BOOLEAN :
              IF ok
                THEN /\ listener' = "open" /\ tcpRunning' = TRUE
                     /\ tacc' = [pc |-> "accept", c |-> None]
                     /\ spc' = "start_http"
                ELSE /\ UNCHANGED <<tcpRunning, listener, tacc>>
                     /\ spc' = "failed"
  /\ UNCHANGED <<cfg, scn, dspVars, cycleVars, clockVars, lpc2, capVars, obsVars,
                 connVars, tcpClients, tb, tcpCleanups, httpVars>>

\* startProtocolServers, HTTP part: skipped when disabled; HTTPServer.Start
\* sets isRunning, spawns ListenAndServe and always returns nil: whether the
\* port could be bound is only logged.
RelayStartHttp ==
  /\ Alive /\ spc = "start_http"
  /\ IF ~cfg.httpEnabled
       THEN UNCHANGED <<httpRunning, httpListening>>
       ELSE /\ httpRunning' = TRUE
            /\ \E bound \in BOOLEAN : httpListening' = bound
  /\ spc' = "start_cap"
  /\ UNCHANGED <<cfg, scn, dspVars, cycleVars, clockVars, lpc2, capVars, obsVars,
                 connVars, tcpVars, streamClients, audioBuffer, hb, httpCleanups,
                 hpc, hidx>>

\* SetDataCallback and audioCapture.Start: stream.Start may fail, and Start
\* then returns the error at once, ar.isRunning still false; otherwise the
\* flags are set, processAudio is spawned and ar.isRunning becomes true.
RelayStartCapture ==
  /\ Alive /\ spc = "start_cap" /\ ~isCapturing
  /\ \E ok \in BOOLEAN :
       IF ok
         THEN /\ isCapturing' = TRUE /\ isRunning' = TRUE
              /\ lpc' = "check"
              /\ spc' = "run"
         ELSE /\ UNCHANGED <<isCapturing, isRunning, lpc>>
              /\ spc' = "failed"
  /\ UNCHANGED <<cfg, scn, dspVars, cycleVars, clockVars, lpc2, stream, buffer,
                 frameCount, bytesSent, silenceCount, silenceFrames,
                 consecutiveErrors, audioData, loopSynced, obsVars, connVars,
                 tcpVars, httpVars>>

\* AudioRelay.Stop after a failed Start: ar.isRunning is false, so it returns
\* before audioCapture.Stop and stopProtocolServers.
StopAfterFailedStart ==
  /\ Alive /\ spc = "failed"
  /\ spc' = "failed_stopped"
  /\ UNCHANGED <<cfg, scn, dspVars, cycleVars, clockVars, lpc2, capVars, obsVars,
                 connVars, tcpVars, httpVars>>

\* ------------------------------------------------------------ specifications
\* Time passes: time.Since(lastStats) grows by a second.
Tick ==
  /\ Alive /\ elapsed < MaxElapsed /\ statusLines < MaxStatusLines
  /\ elapsed' = elapsed + 1
  /\ UNCHANGED <<cfg, scn, dspVars, cycleVars, statusLines, lpc2, capVars, obsVars,
                 connVars, tcpVars, httpVars, spc>>

\* One capture cycle: the loop test, a successful read, the callback.
LoopNext ==
  \/ LoopCheck
  \/ \E f \in scn.frames : ReadOk(f)
  \/ TcpBroadcastBegin
  \/ HttpBroadcastBegin
  \/ CallbackReturn

TcpFanOut ==
  \/ \E c \in TcpConns : TcpWriteBegin(c)
  \/ TcpWriteReturn
  \/ TcpBroadcastEnd
  \/ \E F \in SUBSET TcpConns : TcpCleanup(F)

HttpFanOut ==
  \/ \E c \in HttpConns : HttpWriteBegin(c)
  \/ HttpWriteReturn
  \/ HttpBroadcastEnd
  \/ \E F \in SUBSET HttpConns : HttpCleanup(F)

AcceptNext ==
  \/ \E c \in TcpConns : TcpAccept(c)
  \/ TcpAddClient

HandlerNext ==
  \/ \E c \in HttpConns : HttpConnect(c)
  \/ \E c \in HttpConns : HandlerHeader(c)
  \/ \E c \in HttpConns : ReplayBegin(c)
  \/ \E c \in HttpConns : ReplayWrite(c)
  \/ \E c \in HttpConns : ReplayEnd(c)
  \/ \E c \in HttpConns : AddStreamClient(c)

StopNext ==
  \/ StopCapture
  \/ TcpStopListener
  \/ TcpStopClients
  \/ HttpStopServer
  \/ HttpStopClients
  \/ TcpAcceptExit
  \/ ReadFail
  \/ ReadPanic

PeerNext ==
  \/ \E c \in Conns : PeerStall(c)
  \/ \E c \in Conns : PeerResume(c)
  \/ \E c \in Conns : PeerClose(c)
  \/ \E c \in HttpConns : RemoveStreamClient(c)

Scenario(n, l, fs, flt, ps, ms, ds) ==
  [maxFrames |-> n, maxLoud |-> l, frames |-> fs, faulty |-> flt, peers |-> ps,
   moody |-> ms, mortal |-> ds]

\* The running service: both broadcasters, with peers that come, stall and go.
Init ==
  /\ cfg = [silenceDetection |-> FALSE, tcpEnabled |-> TRUE, httpEnabled |-> TRUE]
  /\ scn \in {Scenario(NetFrames, NetFrames, {LoudFrame}, FALSE, P, P, P) :
                P \in {TcpConns, HttpConns, {"t1", "h1"}}}
  /\ InitCommon

Next ==
  \/ LoopNext \/ BufferAudioData
  \/ TcpFanOut \/ HttpFanOut
  \/ AcceptNext \/ HandlerNext \/ PeerNext

Spec == Init /\ [][Next]_vars

\* The same, under the scheduling the Go runtime gives: a goroutine that can take
\* a step again and again eventually takes it (a write that a peer would accept
\* from time to time does complete). The peers owe nothing.
LoopSteps ==
  \/ LoopNext \/ BufferAudioData
  \/ \E c \in TcpConns : TcpWriteBegin(c)
  \/ TcpWriteReturn \/ TcpBroadcastEnd
  \/ \E c \in HttpConns : HttpWriteBegin(c)
  \/ HttpWriteReturn \/ HttpBroadcastEnd

HandlerSteps(c) ==
  \/ HandlerHeader(c) \/ ReplayBegin(c) \/ ReplayWrite(c) \/ ReplayEnd(c)
  \/ AddStreamClient(c) \/ RemoveStreamClient(c)

FairSpec ==
  /\ Spec
  /\ SF_vars(LoopSteps)
  /\ WF_vars(TcpAddClient)
  /\ \A c \in HttpConns : SF_vars(HandlerSteps(c))
  /\ \A F \in SUBSET TcpConns : WF_vars(TcpCleanup(F))
  /\ \A F \in SUBSET HttpConns : WF_vars(HttpCleanup(F))

\* Failure isolation: in each broadcaster one peer that stays (t1, h1) and one
\* that goes away (t2, h2).
InitIso ==
  /\ cfg = [silenceDetection |-> FALSE, tcpEnabled |-> TRUE, httpEnabled |-> TRUE]
  /\ scn = Scenario(IsoFrames, IsoFrames, {LoudFrame}, FALSE, Conns, {}, {"t2", "h2"})
  /\ InitCommon

NextIso ==
  \/ LoopNext \/ BufferAudioData
  \/ TcpFanOut \/ HttpFanOut
  \/ AcceptNext \/ HandlerNext
  \/ \E c \in Conns : PeerClose(c)
  \/ \E c \in HttpConns : RemoveStreamClient(c)

SpecIso == InitIso /\ [][NextIso]_vars

\* Shutdown: one peer per broadcaster, and AudioRelay.Stop signalled at any moment.
InitStop ==
  /\ cfg = [silenceDetection |-> FALSE, tcpEnabled |-> TRUE, httpEnabled |-> TRUE]
  /\ scn = Scenario(StopFrames, StopFrames, {LoudFrame}, FALSE, {"t1", "h1"}, {}, {"t1", "h1"})
  /\ InitCommon

NextStop == NextIso \/ StopNext

SpecStop == InitStop /\ [][NextStop]_vars

\* Silence throttling: detection enabled, a healthy device, nobody connected.
InitThrottle ==
  /\ cfg = [silenceDetection |-> TRUE, tcpEnabled |-> TRUE, httpEnabled |-> FALSE]
  /\ scn = Scenario(ThrottleFrames, ThrottleLoud, {QuietFrame, LoudFrame}, FALSE, {}, {}, {})
  /\ InitCommon

SpecThrottle == InitThrottle /\ [][LoopNext]_vars

\* The status line: detection enabled, a healthy device, nobody connected, and
\* the clock running while the loop works.
InitStatus ==
  /\ cfg = [silenceDetection |-> TRUE, tcpEnabled |-> TRUE, httpEnabled |-> FALSE]
  /\ scn = Scenario(StatusFrames, StatusLoud, {QuietFrame, LoudFrame}, FALSE, {}, {}, {})
  /\ InitCommon

NextStatus == LoopNext \/ Tick

SpecStatus == InitStatus /\ [][NextStatus]_vars

\* Read errors: a device whose reads may fail at any time.
InitErrors ==
  /\ cfg \in {[silenceDetection |-> d, tcpEnabled |-> TRUE, httpEnabled |-> FALSE] :
                d \in BOOLEAN}
  /\ scn = Scenario(ErrFrames, ErrFrames, {QuietFrame, LoudFrame}, TRUE, {}, {}, {})
  /\ InitCommon

NextErrors == LoopNext \/ ReadFail

SpecErrors == InitErrors /\ [][NextErrors]_vars

\* The callback: detection on or off, a device whose reads may fail at any time,
\* long enough for a silent run to be throttled.
InitCallback ==
  /\ cfg \in {[silenceDetection |-> d, tcpEnabled |-> TRUE, httpEnabled |-> FALSE] :
                d \in BOOLEAN}
  /\ scn = Scenario(CbFrames, CbLoud, {QuietFrame, LoudFrame}, TRUE, {}, {}, {})
  /\ InitCommon

SpecCallback == InitCallback /\ [][NextErrors]_vars

\* An input that is silent throughout, detection enabled, one TCP client.
InitSilent ==
  /\ cfg = [silenceDetection |-> TRUE, tcpEnabled |-> TRUE, httpEnabled |-> TRUE]
  /\ scn = Scenario(SilentFrames, 0, {QuietFrame}, FALSE, {"t1"}, {}, {})
  /\ InitCommon

NextSilent ==
  \/ LoopNext \/ BufferAudioData
  \/ \E c \in TcpConns : TcpWriteBegin(c)
  \/ TcpWriteReturn
  \/ TcpBroadcastEnd
  \/ AcceptNext

SpecSilent == InitSilent /\ [][NextSilent]_vars

\* A long silence with detection enabled: one TCP peer, which may close its
\* connection at any moment and never stalls.
InitQuiet ==
  /\ cfg = [silenceDetection |-> TRUE, tcpEnabled |-> TRUE, httpEnabled |-> TRUE]
  /\ scn = Scenario(SilentFrames, 0, {QuietFrame}, FALSE, {"t1"}, {}, {"t1"})
  /\ InitCommon

NextQuiet ==
  \/ NextSilent
  \/ \E F \in SUBSET TcpConns : TcpCleanup(F)
  \/ \E c \in TcpConns : PeerClose(c)

SpecQuiet == InitQuiet /\ [][NextQuiet]_vars

\* The same, with the loop, the acceptor and the cleanup goroutines scheduled.
FairQuiet ==
  /\ SpecQuiet
  /\ SF_vars(LoopSteps)
  /\ WF_vars(TcpAddClient)
  /\ \A F \in SUBSET TcpConns : WF_vars(TcpCleanup(F))

\* Stop and start again: capture alone (both protocols disabled), Stop signalled
\* at any moment and followed by a second Start.
InitRestart ==
  /\ cfg = [silenceDetection |-> FALSE, tcpEnabled |-> FALSE, httpEnabled |-> FALSE]
  /\ scn = Scenario(RestartFrames, RestartFrames, {LoudFrame}, FALSE, {}, {}, {})
  /\ InitCommon

NextRestart ==
  \/ LoopNext \/ ReadFail \/ ReadPanic
  \/ StopCapture \/ TcpStopListener \/ HttpStopServer
  \/ Reinitialize \/ StartAgain
  \/ LoopCheck2 \/ \E f \in scn.frames : ReadOk2(f)

SpecRestart == InitRestart /\ [][NextRestart]_vars

\* Start-up: from New on, with either protocol enabled or not, every step of
\* AudioRelay.Start succeeding or failing, a TCP peer that may connect, and
\* Stop called after Start has returned.
InitStart ==
  /\ cfg \in {[silenceDetection |-> FALSE, tcpEnabled |-> t, httpEnabled |-> h] :
                t \in BOOLEAN, h \in BOOLEAN}
  /\ scn = Scenario(StartFrames, StartFrames, {LoudFrame}, FALSE, {"t1"}, {}, {})
  /\ acfg = ServiceAudio
  /\ actualBufferSize = 0 /\ processed = <<>> /\ buffer = <<>>
  /\ lpc = "new" /\ isRunning = FALSE /\ isCapturing = FALSE /\ stream = "nil"
  /\ encoded = <<>> /\ bytesTransferred = 0 /\ okReads = 0 /\ cbBytes = 0
  /\ statsSeen = <<[frames |-> 0, bytes |-> 0, silence |-> 0]>>
  /\ elapsed = 0 /\ statusLines = 0 /\ lpc2 = "none"
  /\ frameCount = 0 /\ bytesSent = 0 /\ silenceCount = 0
  /\ silenceFrames = 0 /\ consecutiveErrors = 0 /\ audioData = 0
  /\ loopSynced = FALSE
  /\ run = 0 /\ failRun = 0 /\ cbCalls = 0 /\ loud = 0
  /\ replayN = [c \in HttpConns |-> -1]
  /\ conn = [c \in Conns |-> "none"] /\ srvClosed = {}
  /\ recv = [c \in Conns |-> <<>>]
  /\ tcpRunning = FALSE /\ listener = "nil"
  /\ tcpClients = {} /\ tb = Idle /\ tcpCleanups = {}
  /\ tacc = [pc |-> "exit", c |-> None]
  /\ httpRunning = FALSE /\ httpListening = FALSE
  /\ streamClients = {} /\ audioBuffer = <<>> /\ hb = Idle /\ httpCleanups = {}
  /\ hpc = [c \in HttpConns |-> "none"] /\ hidx = [c \in HttpConns |-> 0]
  /\ spc = "idle"

NextStart ==
  \/ RelayInitialize \/ RelayStartTcp \/ RelayStartHttp \/ RelayStartCapture
  \/ StopAfterFailedStart
  \/ LoopNext \/ BufferAudioData
  \/ \E c \in TcpConns : TcpWriteBegin(c)
  \/ TcpWriteReturn \/ TcpBroadcastEnd
  \/ AcceptNext
  \/ StopNext

SpecStart == InitStart /\ [][NextStart]_vars

\* The buffer size: capture alone, from NewAudioCapture on, over sample rates
\* at and around the rates whose 20 ms are a power of two, and the usual ones.
Rates ==
  {8000, 11025, 16000, 22050, 32000, 44100, 48000, 88200, 96000, 192000}
  \cup {50 * (2 ^ k) + d : k \in 7..12, d \in {-1, 0, 1}}

ZeroFrame(n) == [i \in 1..n |-> 0]

InitBuffer ==
  /\ cfg = [silenceDetection |-> FALSE, tcpEnabled |-> FALSE, httpEnabled |-> FALSE]
  /\ acfg \in {[ServiceAudio EXCEPT !.sampleRate = r, !.channels = c, !.bufferSize = b] :
                 r \in Rates, c \in 1..MaxChannels, b \in 0..MaxBufferSize}
  /\ scn = Scenario(BufFrames, 0, {ZeroFrame(calculateOptimalBufferSize(acfg))},
                    FALSE, {}, {}, {})
  /\ InitNew

NextBuffer == Initialize \/ StartCapture \/ LoopNext

SpecBuffer == InitBuffer /\ [][NextBuffer]_vars

\* Silence detection: capture alone, detection enabled, over thresholds up to
\* and beyond the 16-bit limit and frames of two samples at, within and just
\* beyond the threshold and at the ends of the 16-bit range.
Thresholds == {0, 1, SilenceThreshold, 32766, 32767, 32768, 40000, 65536, -1}

SamplesAround(t) ==
  {0, t, -t, t + 1, -(t + 1), 32767, -32768} \cap (-32768..32767)

InitDetect ==
  /\ cfg = [silenceDetection |-> TRUE, tcpEnabled |-> FALSE, httpEnabled |-> FALSE]
  /\ acfg \in {[ServiceAudio EXCEPT !.silenceThreshold = t, !.channels = 1,
                                    !.bufferSize = 2] : t \in Thresholds}
  /\ scn = Scenario(DetectFrames, DetectFrames,
                    [1..2 -> SamplesAround(acfg.silenceThreshold)], FALSE, {}, {}, {})
  /\ InitNew

SpecDetect == InitDetect /\ [][NextBuffer]_vars

\* Signal processing: capture alone, detection off, over volume multipliers
\* 0.5, 1.0, 1.5 and 2.0 and several clip thresholds; one-sample frames at the
\* ends of the 16-bit range, near zero and around the knee of the soft clip.
Volumes == {5, 10, 15, 20}
Clips == {1000, ClipThreshold, 32767}

SamplesAt(a) ==
  LET knee == (10 * a.clipThreshold) \div a.volumeTenths
      pos == {0, 1, 3, knee - 1, knee, knee + 1, knee + 7, knee + 10, 32767}
  IN  (pos \cup {-x : x \in pos} \cup {-32768}) \cap (-32768..32767)

InitClip ==
  /\ cfg = [silenceDetection |-> FALSE, tcpEnabled |-> FALSE, httpEnabled |-> FALSE]
  /\ acfg \in {[ServiceAudio EXCEPT !.volumeTenths = m, !.clipThreshold = t,
                                    !.channels = 1, !.bufferSize = 1] :
                 m \in Volumes, t \in Clips}
  /\ scn = Scenario(ClipFrames, ClipFrames, {<<x>> : x \in SamplesAt(acfg)},
                    FALSE, {}, {}, {})
  /\ InitNew

SpecClip == InitClip /\ [][NextBuffer]_vars

\* The backlog: the HTTP broadcaster alone, one well-behaved late joiner.
InitRing ==
  /\ cfg = [silenceDetection |-> FALSE, tcpEnabled |-> FALSE, httpEnabled |-> TRUE]
  /\ scn = Scenario(RingFrames, RingFrames, {LoudFrame}, FALSE, {"h1"}, {}, {})
  /\ InitCommon

NextRing ==
  \/ LoopNext \/ BufferAudioData
  \/ \E c \in HttpConns : HttpWriteBegin(c)
  \/ HttpWriteReturn
  \/ HttpBroadcastEnd
  \/ HandlerNext

SpecRing == InitRing /\ [][NextRing]_vars

\* ------------------------------------------------------------------ claims
\* The capture loop is inside the data callback (broadcastAudioData).
InDispatch ==
  lpc \in {"cb_tcp", "tcp_loop", "cb_http", "http_loop", "cb_buf", "cb_end"}

\* The frame being dispatched is the last item written to connection c.
Delivered(c) == recv[c] # <<>> /\ Last(recv[c]) = audioData

\* The audio frames written to connection c, without the WAV header.
Frames(c) == SelectSeq(recv[c], LAMBDA x : x # WavHeader)

\* <<a, a+1, ..., b>>
Range(a, b) == [i \in 1..(b - a + 1) |-> a + i - 1]

Min(a, b) == IF a < b THEN a ELSE b

\* C1: when a Broadcast call of either server returns, every registered client
\* has been written to: each one either failed in this call or has the frame,
\* and a client that stays responsive has the frame, however many others failed.
C1_EveryClientServed ==
  [][ /\ TcpBroadcastEnd =>
           /\ \A c \in tcpClients : c \in tb.failed \/ Delivered(c)
           /\ \A c \in tcpClients \ scn.mortal : Delivered(c)
      /\ HttpBroadcastEnd =>
           /\ \A c \in streamClients : c \in hb.failed \/ Delivered(c)
           /\ \A c \in streamClients \ scn.mortal : Delivered(c) ]_vars

\* One frame has been fanned out by both servers; in each, the write to the
\* peer that went away failed and the responsive peer has the frame.
C1_Witness ==
  /\ lpc = "http_loop" /\ hb.cur = None /\ hb.todo = {}
  /\ tcpClients = TcpConns /\ tb.failed = {"t2"} /\ Delivered("t1")
  /\ streamClients = HttpConns /\ hb.failed = {"h2"} /\ Delivered("h1")

\* C2: while the write to one registered client is pending, the write of the
\* same frame to any other registered client that still waits for it can begin.
C2_NoDelay ==
  \A a \in Conns, b \in Conns :
    /\ a # b
    /\ \/ tb.active /\ tb.cur = b /\ a \in tb.todo
       \/ hb.active /\ hb.cur = b /\ a \in hb.todo
    /\ conn[b] = "stalled" /\ b \notin srvClosed
    => ENABLED (TcpWriteBegin(a) \/ HttpWriteBegin(a))

\* C3: every invocation of the data callback eventually returns.
C3_DispatchReturns == InDispatch ~> ~InDispatch

\* C4: an HTTP client reaches the live set only through a backlog replay and is
\* not in it before the replay is over; when N <= 50 Broadcast calls have
\* completed as the replay begins, the replay writes the client frames 1..N in
\* order after the header, and every frame it gets later comes after those.
C4_ReplayThenLive ==
  \A c \in HttpConns :
    /\ hpc[c] \in {"header", "replay_lock", "replay", "add"} => c \notin streamClients
    /\ hpc[c] = "replay" /\ replayN[c] <= bufferSize =>
         Frames(c) = Range(1, hidx[c] - 1) /\ Len(audioBuffer) = replayN[c]
    /\ hpc[c] \in {"add", "wait"} => replayN[c] >= 0
    /\ hpc[c] \in {"add", "wait"} /\ replayN[c] <= bufferSize =>
         /\ Len(Frames(c)) >= replayN[c]
         /\ SubSeq(Frames(c), 1, replayN[c]) = Range(1, replayN[c])
         /\ \A j \in (replayN[c] + 1)..Len(Frames(c)) : Frames(c)[j] > replayN[c]

\* A client that joined after 50 frames has the header, those 50 frames and a
\* live frame after them.
C4_Witness ==
  /\ hpc["h1"] = "wait" /\ replayN["h1"] = 50
  /\ Len(recv["h1"]) > 51 /\ recv["h1"][51] = 50 /\ recv["h1"][52] > 50

\* C5: after n completed Broadcast calls the backlog is the last min(n, 50)
\* frames in broadcast order, and never longer than 50.
C5_BacklogIsLastFifty ==
  LET n == IF lpc = "cb_end" THEN cbCalls ELSE BroadcastsDone
  IN  /\ Len(audioBuffer) <= 50
      /\ audioBuffer = Range(n - Min(n, 50) + 1, n)

\* 51 frames broadcast with nobody connected: the backlog is frames 2..51.
C5_Witness ==
  /\ cbCalls = 51 /\ lpc = "check" /\ \A c \in Conns : conn[c] = "none"
  /\ Len(audioBuffer) = 50 /\ audioBuffer[1] = 2 /\ audioBuffer[50] = 51

\* C6: the frames written to any connection, backlog replay and live fan-out
\* together, are in capture order, none of them twice.
C6_OrderedNoDuplicates ==
  \A c \in Conns :
    \A i \in 1..Len(Frames(c)), j \in 1..Len(Frames(c)) :
      i < j => Frames(c)[i] < Frames(c)[j]

\* A TCP client written both frames live; an HTTP client written frame 1 from
\* the backlog and frame 2 live.
C6_Witness ==
  /\ recv["t1"] = <<1, 2>>
  /\ recv["h1"] = <<WavHeader, 1, 2>> /\ replayN["h1"] = 1

\* The step in which the loop reads a frame, by what the frame really is.
ReadsSilent ==
  /\ lpc = "read" /\ frameCount' = frameCount + 1
  /\ cfg.silenceDetection /\ TrulySilent(buffer')
ReadsLoud ==
  /\ lpc = "read" /\ frameCount' = frameCount + 1
  /\ cfg.silenceDetection /\ ~TrulySilent(buffer')
CallbackInvoked ==
  /\ lpc' = "cb_tcp" /\ cbCalls' = cbCalls + 1 /\ audioData' = frameCount'
  /\ bytesSent' = bytesSent + 2 * Len(buffer')
NothingSent ==
  /\ lpc' = "check" /\ cbCalls' = cbCalls /\ bytesSent' = bytesSent

\* C7: with detection enabled the k-th frame of a silent run is dispatched iff
\* k <= 30; a later one invokes no callback and adds nothing to bytesSent;
\* silenceCount grows by one for every silent frame.
C7_ThrottleAfterThirty ==
  [][ ReadsSilent =>
        /\ silenceCount' = silenceCount + 1
        /\ run' <= 30 => CallbackInvoked
        /\ run' > 30 => NothingSent ]_vars

\* The 31st silent frame in a row has been read and dropped: 30 callbacks so far.
C7_Witness ==
  /\ run = 31 /\ frameCount = 31 /\ silenceCount = 31 /\ cbCalls = 30
  /\ bytesSent = 120 /\ lpc = "check"

\* C8: a non-silent frame sets the consecutive-silence count to zero and is
\* dispatched, also after a throttled run; of the silent run that follows, the
\* first 30 frames are dispatched again and the later ones are not.
C8_LoudFrameResets ==
  [][ /\ ReadsLoud => silenceFrames' = 0 /\ CallbackInvoked
      /\ ReadsSilent /\ loud > 0 =>
           /\ silenceFrames' = run'
           /\ (lpc' = "cb_tcp") = (run' <= 30) ]_vars

\* 31 silent frames, a loud one, 31 silent ones: 30 + 1 + 30 callbacks.
C8_Witness ==
  /\ frameCount = 63 /\ loud = 1 /\ run = 31 /\ silenceFrames = 31
  /\ cbCalls = 61 /\ lpc = "check"

\* C9 as claimed: the loop halts once the 10th consecutive read has failed.
C9_HaltsAtTenth ==
  /\ failRun >= 10 => lpc = "exit"
  /\ lpc = "exit" /\ isRunning => failRun >= 10

\* C9, amended: the loop halts once the 11th consecutive read has failed (the
\* count exceeds 10), and read errors halt it at no earlier point.
C9_HaltsAtEleventh ==
  /\ failRun >= 11 => lpc = "exit"
  /\ lpc = "exit" /\ isRunning => failRun = 11
  /\ lpc = "exit" <=> consecutiveErrors > 10

\* The loop has halted on its 11th consecutive failure, after frames were read.
C9_Witness == lpc = "exit" /\ failRun = 11 /\ frameCount > 0 /\ isRunning

\* C10: once AudioCapture.Stop has returned and the servers are being torn
\* down, the capture loop is not inside the callback.
C10_NoDispatchDuringTeardown == spc # "run" => ~InDispatch

\* TCPServer.Stop has returned.
TcpStopped == cfg.tcpEnabled /\ spc \in {"tcp", "http_lock", "done"}

\* C11: once TCPServer.Stop has returned the client set is empty, and every
\* connection acceptClients ever accepted has been closed by the server.
C11_StopLeavesNothing ==
  TcpStopped =>
    /\ tcpClients = {}
    /\ \A c \in TcpConns : conn[c] # "none" => c \in srvClosed

\* A write of the current Broadcast call is in progress to a client whose write
\* failed in an earlier call (it is in a cleanup that has not run yet).
RetriedTcp == tb.cur # None /\ tb.cur \in UNION tcpCleanups
RetriedHttp == hb.cur # None /\ hb.cur \in UNION httpCleanups

\* C12: no Broadcast call writes to a client whose write failed in an earlier
\* Broadcast call.
C12_NeverRetried == ~RetriedTcp /\ ~RetriedHttp

\* The write to client c failed in the latest Broadcast call of its server.
WriteFailed(c) == c \in tb.failed \cup hb.failed

\* C13: a client whose write failed in a Broadcast call is eventually out of
\* the client set, with its connection closed by the server.
C13_FailedEventuallyGone ==
  \A c \in Conns :
    WriteFailed(c) ~> (c \notin tcpClients \cup streamClients /\ c \in srvClosed)

\* Header bytes written to connection c, and the positions of the header in
\* what was written to it.
HeaderAt(c) == {i \in 1..Len(recv[c]) : recv[c][i] = WavHeader}
HeaderBytes(c) == Cardinality(HeaderAt(c)) * WavHeaderLen

\* C14: what is written to an HTTP stream connection starts with the 44-byte
\* WAV header, which is written once only; everything after it is an audio
\* frame; a connection that is intact after the header step has the header,
\* and a client is in the live set only after the header step.
C14_HeaderOnceFirst ==
  \A c \in HttpConns :
    /\ HeaderAt(c) \subseteq {1}
    /\ recv[c] # <<>> => HeaderAt(c) = {1} /\ HeaderBytes(c) = 44
    /\ \A i \in 2..Len(recv[c]) : recv[c][i] \in 1..frameCount
    /\ (hpc[c] \notin {"none", "header"} /\ conn[c] \in {"open", "stalled"}
        /\ c \notin srvClosed) => HeaderBytes(c) = 44
    /\ c \in streamClients => hpc[c] \notin {"none", "header"}

\* One client has the header, a backlog frame and a live frame; another one,
\* which joined later, has the header and both frames from the backlog.
C14_Witness ==
  /\ recv["h1"] = <<WavHeader, 1, 2>> /\ replayN["h1"] = 1
  /\ recv["h2"] = <<WavHeader, 1, 2>> /\ replayN["h2"] = 2

\* The step in which a read succeeds, and whether the frame read is one of a
\* silent run past its 30th frame with detection enabled.
ReadSucceeds == lpc = "read" /\ frameCount' = frameCount + 1
FrameThrottled == cfg.silenceDetection /\ TrulySilent(buffer') /\ run' > 30

\* C15: a successful read of a frame that is not throttled invokes the callback
\* once, with that frame; a throttled frame, a failed read and every other step
\* invoke none; with detection disabled every frame read has been given to the
\* callback and silenceCount is 0.
C15_CallbackOncePerFrame ==
  [][ /\ ReadSucceeds /\ ~FrameThrottled =>
           /\ cbCalls' = cbCalls + 1 /\ lpc' = "cb_tcp"
           /\ audioData' = frameCount' /\ audioData' > audioData
      /\ ReadSucceeds /\ FrameThrottled =>
           cbCalls' = cbCalls /\ lpc' = "check" /\ audioData' = audioData
      /\ ~ReadSucceeds => cbCalls' = cbCalls /\ audioData' = audioData
      /\ ~cfg.silenceDetection => cbCalls' = frameCount' /\ silenceCount' = 0
    ]_vars

\* Detection enabled: 31 silent frames read, the last one throttled, then a
\* failed read; 30 callbacks.
C15_Witness ==
  /\ cfg.silenceDetection /\ frameCount = 31 /\ cbCalls = 30 /\ audioData = 30
  /\ failRun = 1 /\ lpc = "check"

\* Detection disabled: the same input, and every frame was dispatched.
C15_WitnessOff ==
  /\ ~cfg.silenceDetection /\ frameCount = 31 /\ cbCalls = 31 /\ run = 31
  /\ failRun = 1 /\ lpc = "check"

\* C16: detection enabled and every frame silent: after each completed cycle
\* silenceCount = frameCount; bytesSent counts the first 30 frames only, and
\* no frame after the 30th is written to a client or kept in the backlog.
C16_AllSilent ==
  (cfg.silenceDetection /\ loud = 0) =>
    /\ lpc = "check" => silenceCount = frameCount
    /\ bytesSent = Min(frameCount, 30) * 2 * Len(QuietFrame)
    /\ \A c \in Conns : \A i \in 1..Len(recv[c]) : recv[c][i] <= 30
    /\ \A i \in 1..Len(audioBuffer) : audioBuffer[i] <= 30

\* 32 silent frames read: the client connected from the start has frames 1..30.
C16_Witness ==
  /\ frameCount = 32 /\ silenceCount = 32 /\ lpc = "check" /\ loud = 0
  /\ recv["t1"] = Range(1, 30) /\ bytesSent = 120 /\ Len(audioBuffer) = 30

\* The smallest power of two that is at least r / 50 (r * 0.02).
SmallestPowerOfTwoFor(r) ==
  CHOOSE p \in {2 ^ k : k \in 0..20} :
    50 * p >= r /\ (p = 1 \/ 50 * (p \div 2) < r)

Clamped(p) == IF p < 256 THEN 256 ELSE IF p > 2048 THEN 2048 ELSE p

\* C17: with no configured buffer size, the effective size is P * channels,
\* P a power of two in [256, 2048]: the smallest power of two >= R * 0.02,
\* clamped to that range.
C17_AutoBufferSize ==
  (lpc # "new" /\ acfg.bufferSize = 0) =>
    \E P \in {2 ^ k : k \in 8..11} :
      /\ actualBufferSize = P * acfg.channels
      /\ P = Clamped(SmallestPowerOfTwoFor(acfg.sampleRate))

\* C18: with a configured buffer size B > 0 the effective size is B * channels
\* from Initialize on and throughout the session, whatever the sample rate,
\* and the capture buffer has that length.
C18_ConfiguredBufferSize ==
  (lpc # "new" /\ acfg.bufferSize > 0) =>
    /\ actualBufferSize = acfg.bufferSize * acfg.channels
    /\ Len(buffer) = actualBufferSize

\* B = 3, two channels, 44100 Hz: six samples per frame, a frame captured.
C18_Witness ==
  /\ acfg.bufferSize = 3 /\ acfg.channels = 2 /\ acfg.sampleRate = 44100
  /\ actualBufferSize = 6 /\ frameCount = 1 /\ lpc = "check"

\* C19: with detection enabled, the frame just read is classified silent
\* exactly when every sample's absolute value is <= the configured threshold.
C19_SilentIffWithinThreshold ==
  (cfg.silenceDetection /\ frameCount > 0) =>
    ((silenceFrames > 0) <=> TrulySilent(buffer))

\* What the soft clip is to yield for sample x, in whole units: v = x * volume;
\* v itself when |v| <= clip threshold, otherwise
\* sign(v) * (threshold + 0.3 * (|v| - threshold)); the fraction dropped.
SoftClipValue(x) ==
  LET v == x * acfg.volumeTenths
      t == 10 * acfg.clipThreshold
      a == Abs(v)
      mag == IF a <= t THEN a \div 10 ELSE (10 * t + 3 * (a - t)) \div 100
  IN  IF v < 0 THEN -mag ELSE mag

\* C20: every processed sample is the soft-clip value of its input sample,
\* has the sign of the scaled input and lies within the 16-bit range.
C20_SoftClip ==
  (frameCount > 0 /\ lpc # "read") =>
    \A i \in 1..Len(buffer) :
      /\ SoftClipValue(buffer[i]) \in -32768..32767
      /\ processed[i] = SoftClipValue(buffer[i])
      /\ buffer[i] * acfg.volumeTenths > 0 => processed[i] >= 0
      /\ buffer[i] * acfg.volumeTenths < 0 => processed[i] <= 0

\* The samples a receiver gets by reading the bytes as little-endian signed
\* 16-bit integers.
DecodeLE(b) ==
  [i \in 1..(Len(b) \div 2) |->
     LET u == b[2 * i - 1] + 256 * b[2 * i]
     IN  IF u >= 32768 THEN u - 65536 ELSE u]

\* C21: int16ToBytes packs losslessly: n samples give 2n bytes, each sample's
\* low byte followed by its high byte, and decoding the bytes as little-endian
\* signed 16-bit integers gives back the samples, negative ones included.
C21_LittleEndianLossless ==
  /\ Len(encoded) = 2 * Len(processed)
  /\ \A k \in 1..Len(encoded) : encoded[k] \in 0..255
  /\ \A i \in 1..Len(processed) :
       /\ encoded[2 * i - 1] = processed[i] % 256
       /\ encoded[2 * i] = ((processed[i] - (processed[i] % 256)) \div 256) % 256
  /\ DecodeLE(encoded) = processed

C21_Witness ==
  /\ cbCalls > 0 /\ Len(processed) = 2
  /\ processed[1] < 0 /\ processed[1] # -32768 /\ processed[1] % 256 # 255
  /\ processed[2] > 255
  /\ encoded = int16ToBytes(processed)

\* A newly connected HTTP client whose backlog write is blocked: the handler is
\* inside sendBufferedAudio with an entry left to write and the peer not reading.
ReplayBlocked(c) ==
  hpc[c] = "replay" /\ hidx[c] <= Len(audioBuffer) /\ conn[c] = "stalled"

\* C22: while sendBufferedAudio is writing the backlog to a blocked new client,
\* an HTTPServer.Broadcast call that has reached bufferAudioData can still
\* complete and return to the capture loop.
C22_BroadcastNotStalled ==
  (lpc = "cb_buf" /\ \E c \in HttpConns : ReplayBlocked(c)) =>
    ENABLED BufferAudioData

\* C23: once AudioCapture.Stop has closed the stream and set it to nil, the
\* capture loop is not at (or inside) ac.stream.Read, and it has not died on it.
C23_NoReadAfterClose == stream = "nil" => lpc \notin {"read", "panic"}

\* The processAudio goroutine exists and has not returned.
LoopAlive == lpc \notin {"new", "init", "exit", "panic"}

\* C25: IsCapturing() is true only while the capture loop is alive; after the
\* loop has halted on too many read failures it reports false.
C25_CapturingOnlyWhileAlive == isCapturing => LoopAlive

\* C27: the counters never go back, and every value GetStats can return, the
\* ones taken in the middle of a capture cycle included, has
\* 0 <= silenceCount <= frameCount.
C27_StatsMonotoneBounded ==
  /\ \A i \in 1..Len(statsSeen) :
       /\ 0 <= statsSeen[i].silence
       /\ statsSeen[i].silence <= statsSeen[i].frames
       /\ statsSeen[i].bytes >= 0
  /\ \A i \in 1..(Len(statsSeen) - 1) :
       /\ statsSeen[i].frames <= statsSeen[i + 1].frames
       /\ statsSeen[i].bytes <= statsSeen[i + 1].bytes
       /\ statsSeen[i].silence <= statsSeen[i + 1].silence
  /\ Last(statsSeen) =
       [frames |-> frameCount, bytes |-> bytesSent, silence |-> silenceCount]

C27_Witness ==
  /\ Len(statsSeen) = 4 /\ frameCount >= 2
  /\ silenceCount = frameCount /\ bytesSent > 0

\* C28: frameCount is the number of reads that succeeded, and the
\* consecutive-error counter is the length of the current run of failures: a
\* success adds one frame and clears it, a failure leaves frameCount alone.
C28_FramesAreSuccessfulReads ==
  /\ frameCount = okReads
  /\ consecutiveErrors = failRun

C28_Witness ==
  /\ frameCount = 2 /\ okReads = 2
  /\ consecutiveErrors = MaxConsecutiveErrors /\ lpc = "check"

\* C29: after every completed cycle bytesSent is two bytes per sample of
\* actualBufferSize samples for each frame read successfully and not throttled,
\* and it is the total number of bytes handed to the data callback; failed
\* reads and throttled frames add nothing.
C29_BytesSentIsBytesDispatched ==
  lpc = "check" =>
    /\ bytesSent = 2 * actualBufferSize * cbCalls
    /\ bytesSent = cbBytes

C29_Witness ==
  /\ lpc = "check" /\ cbCalls >= 2 /\ okReads > cbCalls /\ failRun >= 1
  /\ bytesSent = 2 * actualBufferSize * cbCalls /\ actualBufferSize > 0

\* A step that ends a cycle in which the read succeeded: the throttled frame's
\* continue, or the end of the loop body after the callback.
CycleEnds ==
  /\ lpc' = "check"
  /\ lpc = "cb_end" \/ (lpc = "read" /\ okReads' = okReads + 1)

\* C30: every cycle that reads a frame successfully and ends when more than
\* five seconds have passed since the last status line logs a status line and
\* restarts the interval, whether the frame is silent, throttled or sent.
C30_StatusEveryInterval ==
  [][(CycleEnds /\ StatsDue(elapsed)) =>
       (statusLines' = statusLines + 1 /\ elapsed' = 0)]_vars

\* Client c is registered with its server although its peer has closed the
\* transport.
Orphaned(c) == conn[c] = "gone" /\ c \in tcpClients \cup streamClients

\* C26: a registered client whose peer has closed the transport is eventually
\* removed from its client set, whether or not another frame is dispatched.
C26_ClosedEventuallyRemoved ==
  \A c \in Conns : Orphaned(c) ~> (c \notin tcpClients \cup streamClients)

\* The processAudio goroutine spawned by the second Start exists and has not
\* returned.
Loop2Alive == lpc2 \notin {"none", "exit"}

\* C24: at most one capture loop exists at any time: when a later Start has
\* launched a new loop, the loop started before the Stop is no longer running.
C24_SingleLoop == ~(LoopAlive /\ Loop2Alive)

\* AudioRelay.Start has returned an error and AudioRelay.Stop has been called
\* since.
StartFailedAndStopped == spc = "failed_stopped"

\* C31: after a failed AudioRelay.Start, and at the latest once AudioRelay.Stop
\* has been called, no protocol server is left running or listening.
C31_FailedStartLeavesNoServer ==
  StartFailedAndStopped =>
    /\ listener # "open" /\ ~tcpRunning
    /\ ~httpListening /\ ~httpRunning

====
